---- MODULE Spec2Model ----
(***************************************************************************)
(* A model of the extraction-and-reconciliation engine of the Tanzanian    *)
(* commercial rent invoice processor (src/app.py): TaxCalculator with     *)
(* verify_vat_rate, InvoiceParser.parse_invoice / validate_invoice,        *)
(* manual_input_form, calculate_and_display_taxes and the control flow of  *)
(* main.                                                                   *)
(*                                                                         *)
(* Decimal values are fixed-point integers: the integer n stands for the   *)
(* decimal n / Scale.  Python's Decimal arithmetic is exact at the sizes   *)
(* used here, so +, - and the product with a rate are exact integer        *)
(* operations and only quantize() rounds.                                  *)
(***************************************************************************)
EXTENDS Integers, Sequences, FiniteSets, TLC

VARIABLES
    tpc,                 \* TaxCalculator chain: which call comes next
    gross_rent,          \* argument base rent of the chain
    vat_amount,          \* argument VAT amount of the chain
    wht,                 \* result of calculate_wht, or None
    payment_to_landlord, \* result of calculate_payment_to_landlord, or None
    total_outflow,       \* result of calculate_total_outflow, or None
    vat_check,           \* result of verify_vat_rate, or None
    rpc,                 \* record operations: what has been applied to invoice
    invoice,             \* an InvoiceData: its three monetary fields
    is_valid,            \* first component of validate_invoice's result
    errors,              \* second component of validate_invoice's result
    returned,            \* what calculate_and_display_taxes returned, or None
    shown,               \* the indicators calculate_and_display_taxes displayed
    raw_text,            \* the text handed to parse_invoice, or None
    amounts,             \* parse_invoice's list of generic amounts
    text_fields,         \* the textual fields parse_invoice extracted
    input_method,        \* the sidebar radio of main
    uploaded_file,       \* the file uploader of main: None, or the text in the file
    form,                \* the three number inputs of manual_input_form
    button,              \* whether the "Calculate WHT & Payments" click caused this run
    route,               \* the branch the last run of main took
    calculated_on        \* the record main handed to calculate_and_display_taxes, or None

taxVars == <<tpc, gross_rent, vat_amount, wht, payment_to_landlord, total_outflow, vat_check>>

recVars == <<rpc, invoice, is_valid, errors, returned, shown>>

parseVars == <<raw_text, amounts, text_fields>>

mainVars == <<input_method, uploaded_file, form, button, route, calculated_on>>

vars == <<taxVars, recVars, parseVars, mainVars>>

-----------------------------------------------------------------------------
(* Optional values: Python's None and a present value.                     *)

None == <<>>

Some(v) == <<v>>

Val(x) == x[1]

(* Python truthiness of an Optional[Decimal]: None and Decimal 0 are falsy. *)
Truthy(x) == x # None /\ Val(x) # 0

-----------------------------------------------------------------------------
(* Fixed-point decimals.                                                   *)

Scale == 10^4

\* Decimal("0.01"), the quantum of every monetary quantize()
Cent == Scale \div 100

\* 0.001, the finest step of the enumerated inputs (3 fractional digits)
Mill == Scale \div 1000

Abs(x) == IF x < 0 THEN -x ELSE x

Sign(x) == IF x < 0 THEN -1 ELSE 1

\* Decimal.__mul__ of two fixed-point values (exact: the inputs keep the
\* product a whole number of 1/Scale)
DecMul(x, y) == (x * y) \div Scale

\* x.quantize(q, rounding=ROUND_HALF_EVEN): ties go to the even multiple
QuantizeHalfEven(x, q) ==
    LET a == Abs(x)
        n == a \div q
        r == a % q
        m == IF 2 * r > q \/ (2 * r = q /\ n % 2 = 1) THEN n + 1 ELSE n
    IN  Sign(x) * m * q

\* x.quantize(q, rounding=ROUND_HALF_UP): nearest multiple of q, ties away
\* from zero
QuantizeHalfUp(x, q) ==
    LET a == Abs(x)
        n == a \div q
        r == a % q
        m == IF 2 * r >= q THEN n + 1 ELSE n
    IN  Sign(x) * m * q

-----------------------------------------------------------------------------
(* class TaxCalculator                                                     *)

\* WHT_RATE = Decimal("0.10")
WHT_RATE == Scale \div 10

\* VAT_RATE_STANDARD = Decimal("0.18")
VAT_RATE_STANDARD == (18 * Scale) \div 100

calculate_wht_half_even(gross) == QuantizeHalfEven(DecMul(gross, WHT_RATE), Cent)

calculate_wht(gross) == QuantizeHalfUp(DecMul(gross, WHT_RATE), Cent)

calculate_payment_to_landlord_no_vat(gross, vat, w) == QuantizeHalfUp(gross - w, Cent)

calculate_payment_to_landlord(gross, vat, w) == QuantizeHalfUp((gross - w) + vat, Cent)

calculate_total_outflow(payment, w) == QuantizeHalfUp(payment + w, Cent)

\* Decimal("0.0001"), the quantum of the effective rate
TenThousandth == Scale \div 10000

\* Decimal("0.01"), the distance from 18% below which a rate is standard
RATE_TOLERANCE == Scale \div 100

\* (x / y).quantize(q, rounding=ROUND_HALF_UP): the quotient, rounded from
\* its exact value to the nearest multiple of q, ties away from zero; None
\* stands for the exception Decimal division by zero raises
DivQuantizeHalfUp(x, y, q) ==
    IF y = 0 THEN None
    ELSE LET num == Abs(x) * Scale
             den == Abs(y) * q
             n   == num \div den
             r   == num % den
             m   == IF 2 * r >= den THEN n + 1 ELSE n
         IN  Some(Sign(x) * Sign(y) * m * q)

is_standard_inclusive(rate) == Abs(rate - VAT_RATE_STANDARD) <= RATE_TOLERANCE

\* abs(effective_rate - VAT_RATE_STANDARD) < Decimal("0.01")
is_standard(rate) == Abs(rate - VAT_RATE_STANDARD) < RATE_TOLERANCE

\* verify_vat_rate past its guard: the division, the rounding and the test
effective_rate(vat, base) ==
    LET rate == DivQuantizeHalfUp(vat, base, TenThousandth)
    IN  IF rate = None
        THEN [raised |-> TRUE, result |-> None]
        ELSE [raised |-> FALSE, result |-> Some(<<Val(rate), is_standard(Val(rate))>>)]

verify_vat_rate_unguarded(vat, base) == effective_rate(vat, base)

\* TaxCalculator.verify_vat_rate(vat_amount, base_amount)
verify_vat_rate(vat, base) ==
    IF base = 0
    THEN [raised |-> FALSE, result |-> Some(<<0, FALSE>>)]
    ELSE effective_rate(vat, base)

-----------------------------------------------------------------------------
(* class InvoiceData: the three monetary fields, each None or a Decimal.   *)

InvoiceData(base, vat, total) ==
    [base_rent_tzs |-> base, vat_rate |-> None,
     vat_amount_tzs |-> vat, total_amount_tzs |-> total]

-----------------------------------------------------------------------------
(* InvoiceParser.parse_invoice: the amounts and the VAT clause.             *)
(*                                                                         *)
(* A text is a sequence of lines.  Each line holds one token of one of     *)
(* five shapes between words that no pattern matches, so that no match     *)
(* spans two lines; s is a run of the characters [0-9,], with or without   *)
(* a "." and two digits after it:                                          *)
(*   pre        "Rent: TZS s only"         amount pattern 1                *)
(*   post       "Sum s TZS only"           amount pattern 2                *)
(*   vatpct     "VAT 18%: s only"          VAT pattern 1                   *)
(*   vatpctpre  "VAT @ 18%: TZS s only"    VAT pattern 1, amount pattern 1 *)
(*   postvat    "incl. s VAT only"         VAT pattern 2                   *)

TokenKinds == {"pre", "post", "vatpct", "vatpctpre", "postvat"}

\* the digit groups the tokens carry: ",", "0", "1", "1,0" and "0.05"
DigitGroups ==
    { <<",">>, <<"0">>, <<"1">>, <<"1", ",", "0">>, <<"0", ".", "0", "5">> }

Token(kind, group) == [kind |-> kind, group |-> group]

\* the kinds of token r'(?:TZS|TSh|Tsh)\s*([0-9,]+(?:\.\d{2})?)' matches
AMOUNT_PATTERN_1 == {"pre", "vatpctpre"}

\* the kinds of token r'([0-9,]+(?:\.\d{2})?)\s*(?:TZS|TSh)' matches
AMOUNT_PATTERN_2 == {"post"}

\* r'VAT\s*(?:@\s*)?(\d+)%[:\s]*(?:TZS|TSh)?\s*([0-9,]+(?:\.\d{2})?)'
VAT_PATTERN_1 == {"vatpct", "vatpctpre"}

\* r'(?:TZS|TSh)?\s*([0-9,]+(?:\.\d{2})?)\s*VAT'
VAT_PATTERN_2 == {"postvat"}

\* re.finditer(pattern, raw_text): the matching tokens in text order
finditer(pattern, text) == SelectSeq(text, LAMBDA tok : tok.kind \in pattern)

\* match.group(..).replace(',', '')
StripCommas(group) == SelectSeq(group, LAMBDA c : c # ",")

DigitValue(c) ==
    CASE c = "0" -> 0 [] c = "1" -> 1 [] c = "2" -> 2 [] c = "3" -> 3 [] c = "4" -> 4
      [] c = "5" -> 5 [] c = "6" -> 6 [] c = "7" -> 7 [] c = "8" -> 8 [] c = "9" -> 9

RECURSIVE DigitsValue(_)
DigitsValue(str) ==
    IF str = <<>> THEN 0
    ELSE 10 * DigitsValue(SubSeq(str, 1, Len(str) - 1)) + DigitValue(str[Len(str)])

\* where the "." of the string is, or 0
DotAt(str) ==
    IF \E i \in 1..Len(str) : str[i] = "."
    THEN CHOOSE i \in 1..Len(str) : str[i] = "."
    ELSE 0

\* Decimal(str) of a string of digits, with or without a "." and two digits
\* after it: None stands for the InvalidOperation that Decimal("") raises
ParseDecimal(str) ==
    LET dot == DotAt(str)
    IN  IF dot = 0
        THEN IF str = <<>> THEN None ELSE Some(DigitsValue(str) * Scale)
        ELSE Some(DigitsValue(SubSeq(str, 1, dot - 1)) * Scale
                  + DigitsValue(SubSeq(str, dot + 1, Len(str))) * Cent)

\* the loop body over the matches of one pattern: a Decimal that fails to
\* parse is skipped (try / except: continue)
RECURSIVE AppendAmounts(_, _)
AppendAmounts(acc, matches) ==
    IF matches = <<>> THEN acc
    ELSE LET d == ParseDecimal(StripCommas(Head(matches).group))
         IN  AppendAmounts(IF d = None THEN acc ELSE Append(acc, Val(d)), Tail(matches))

\* amounts: pattern by pattern, each pattern's matches in text order
ExtractAmounts(text) ==
    AppendAmounts(AppendAmounts(<<>>, finditer(AMOUNT_PATTERN_1, text)),
                  finditer(AMOUNT_PATTERN_2, text))

\* Decimal(match.group(1)) / 100 of the "18" every VAT clause token carries
VatRateOf(tok) == (DigitsValue(<<"1", "8">>) * Scale) \div 100

\* The VAT clause: the first pattern with a match decides.  No try guards the
\* Decimal(...) here, so an unparseable group raises out of parse_invoice.
ExtractVat(text) ==
    LET m1 == finditer(VAT_PATTERN_1, text)
        m2 == finditer(VAT_PATTERN_2, text)
    IN  IF m1 # <<>>
        THEN LET d == ParseDecimal(StripCommas(Head(m1).group))
             IN  [raised |-> d = None, vat_rate |-> Some(VatRateOf(Head(m1))), vat_amount |-> d]
        ELSE IF m2 # <<>>
        THEN LET d == ParseDecimal(StripCommas(Head(m2).group))
             IN  [raised |-> d = None, vat_rate |-> None, vat_amount |-> d]
        ELSE [raised |-> FALSE, vat_rate |-> None, vat_amount |-> None]

\* IdentifyAmounts with the base rent taken by position like the other two:
\* the first amount
IdentifyAmounts_base_first(amts, vat_rate, vat_clause) ==
    IF Len(amts) >= 2
    THEN LET total == Some(amts[Len(amts)])
             vat   == IF vat_clause = None /\ Len(amts) >= 3
                      THEN Some(amts[Len(amts) - 1]) ELSE vat_clause
             base  == IF Truthy(total) /\ Truthy(vat)
                      THEN Some(amts[1]) ELSE None
         IN  [base_rent_tzs |-> base, vat_rate |-> vat_rate,
              vat_amount_tzs |-> vat, total_amount_tzs |-> total]
    ELSE [base_rent_tzs |-> None, vat_rate |-> vat_rate,
          vat_amount_tzs |-> vat_clause, total_amount_tzs |-> None]

\* IdentifyAmounts with `not invoice.vat_amount_tzs` in place of `is None`
IdentifyAmounts_vat_falsy(amts, vat_rate, vat_clause) ==
    IF Len(amts) >= 2
    THEN LET total == Some(amts[Len(amts)])
             vat   == IF ~Truthy(vat_clause) /\ Len(amts) >= 3
                      THEN Some(amts[Len(amts) - 1]) ELSE vat_clause
             base  == IF Truthy(total) /\ Truthy(vat)
                      THEN Some(Val(total) - Val(vat)) ELSE None
         IN  [base_rent_tzs |-> base, vat_rate |-> vat_rate,
              vat_amount_tzs |-> vat, total_amount_tzs |-> total]
    ELSE [base_rent_tzs |-> None, vat_rate |-> vat_rate,
          vat_amount_tzs |-> vat_clause, total_amount_tzs |-> None]

\* IdentifyAmounts with the VAT amount guessed from two amounts already
IdentifyAmounts_vat_from_two(amts, vat_rate, vat_clause) ==
    IF Len(amts) >= 2
    THEN LET total == Some(amts[Len(amts)])
             vat   == IF vat_clause = None
                      THEN Some(amts[Len(amts) - 1]) ELSE vat_clause
             base  == IF Truthy(total) /\ Truthy(vat)
                      THEN Some(Val(total) - Val(vat)) ELSE None
         IN  [base_rent_tzs |-> base, vat_rate |-> vat_rate,
              vat_amount_tzs |-> vat, total_amount_tzs |-> total]
    ELSE [base_rent_tzs |-> None, vat_rate |-> vat_rate,
          vat_amount_tzs |-> vat_clause, total_amount_tzs |-> None]

\* "Try to identify base rent, VAT, and total from amounts"
IdentifyAmounts(amts, vat_rate, vat_clause) ==
    IF Len(amts) >= 2
    THEN LET total == Some(amts[Len(amts)])
             vat   == IF vat_clause = None /\ Len(amts) >= 3
                      THEN Some(amts[Len(amts) - 1]) ELSE vat_clause
             base  == IF Truthy(total) /\ Truthy(vat)
                      THEN Some(Val(total) - Val(vat)) ELSE None
         IN  [base_rent_tzs |-> base, vat_rate |-> vat_rate,
              vat_amount_tzs |-> vat, total_amount_tzs |-> total]
    ELSE [base_rent_tzs |-> None, vat_rate |-> vat_rate,
          vat_amount_tzs |-> vat_clause, total_amount_tzs |-> None]

-----------------------------------------------------------------------------
(* InvoiceParser.parse_invoice: the textual fields.                         *)
(*                                                                         *)
(* The lines that carry them, v being one of two sample values:            *)
(*   invno    "Invoice No: v"     invoice number patterns 1 and 2 (the     *)
(*                                second reads "oice" after "Inv")         *)
(*   inv      "INV: v"            invoice number pattern 2                 *)
(*   date     "Date: v"           date pattern 1                           *)
(*   daymon   "on 12 January 2026"  date pattern 2                         *)
(*   period   "Period: v"         period pattern 1                         *)
(*   rentfor  "Rent for: v"       period patterns 1 (by its "for") and 2   *)
(*   descr    "Description: v"    description pattern 1                    *)
(*   office   "Office Rent v"     description pattern 2                    *)
(*   landlord "Landlord: v"       landlord pattern 1                       *)
(*   ltd      "- v Ltd"           landlord pattern 2                       *)
(*   tin      "TIN: v"            TIN pattern 1                            *)
(*   taxid    "Tax ID: v"         TIN pattern 2                            *)
(*   bank     "Bank: v"           bank pattern                             *)
(*   account  "Account: v"        account pattern                          *)

FieldKinds ==
    {"invno", "inv", "date", "daymon", "period", "rentfor", "descr", "office",
     "landlord", "ltd", "tin", "taxid", "bank", "account"}

\* the two sample values a line carries
FieldValues == { <<"a">>, <<"b">> }

\* r'Invoice\s*(?:No|Number|#)[:\s]*([A-Z0-9\-/]+)'
INV_NUM_PATTERN_1 == {"invno"}

\* r'INV[:\s]*([A-Z0-9\-/]+)', case-insensitive
INV_NUM_PATTERN_2 == {"invno", "inv"}

\* r'Date[:\s]*(\d{1,2}[\/\-]\d{1,2}[\/\-]\d{2,4})'
DATE_PATTERN_1 == {"date"}

\* r'(\d{1,2}\s+(?:Jan|Feb|...|Dec)[a-z]*\s+\d{4})'
DATE_PATTERN_2 == {"daymon"}

\* r'(?:Period|Month|For)[:\s]*([A-Za-z]+\s+\d{4})'
PERIOD_PATTERN_1 == {"period", "rentfor"}

\* r'Rent\s+for[:\s]*([A-Za-z]+\s+\d{4})'
PERIOD_PATTERN_2 == {"rentfor"}

\* r'Description[:\s]*([^\n]+)'
DESC_PATTERN_1 == {"descr"}

\* r'(?:Office|Shop|Commercial)\s+(?:Rent|Lease)[^\n]*'
DESC_PATTERN_2 == {"office"}

\* r'(?:Payee|Landlord|Company)[:\s]*([^\n]+)'
LANDLORD_PATTERN_1 == {"landlord"}

\* r'([A-Z][a-z]+(?:\s+[A-Z][a-z]+)*\s+(?:Ltd|Limited|Company|Co\.))'
LANDLORD_PATTERN_2 == {"ltd"}

\* r'TIN[:\s]*(\d{9,10})'
TIN_PATTERN_1 == {"tin"}

\* r'Tax\s+ID[:\s]*(\d{9,10})'
TIN_PATTERN_2 == {"taxid"}

\* r'Bank[:\s]*([^\n]+)'
BANK_PATTERN == {"bank"}

\* r'Account[:\s]*([0-9\-]+)'
ACCOUNT_PATTERN == {"account"}

\* the fields set in a `for pattern in patterns: ... break` loop
TextFields ==
    {"invoice_number", "invoice_date", "rent_period", "description",
     "landlord_name", "landlord_tin"}

\* the pattern list of each of them, in list order
FieldPatterns(field) ==
    CASE field = "invoice_number" -> <<INV_NUM_PATTERN_1, INV_NUM_PATTERN_2>>
      [] field = "invoice_date"   -> <<DATE_PATTERN_1, DATE_PATTERN_2>>
      [] field = "rent_period"    -> <<PERIOD_PATTERN_1, PERIOD_PATTERN_2>>
      [] field = "description"    -> <<DESC_PATTERN_1, DESC_PATTERN_2>>
      [] field = "landlord_name"  -> <<LANDLORD_PATTERN_1, LANDLORD_PATTERN_2>>
      [] field = "landlord_tin"   -> <<TIN_PATTERN_1, TIN_PATTERN_2>>

\* match.group(..).strip() of a match of the pattern on the token's line
MatchGroup(pattern, tok) ==
    IF pattern = INV_NUM_PATTERN_2 /\ tok.kind = "invno"
    THEN <<"o", "i", "c", "e">>
    ELSE tok.group

\* re.search(pattern, raw_text): the first match in the text, or None
search(pattern, text) ==
    LET m == finditer(pattern, text)
    IN  IF m = <<>> THEN None ELSE Some(MatchGroup(pattern, Head(m)))

\* the loop without its break: a later pattern that matches overwrites
RECURSIVE FirstMatch_no_break(_, _)
FirstMatch_no_break(patterns, text) ==
    IF patterns = <<>> THEN None
    ELSE LET later == FirstMatch_no_break(Tail(patterns), text)
         IN  IF later # None THEN later ELSE search(Head(patterns), text)

\* for pattern in patterns: match = re.search(...); if match: set; break
RECURSIVE FirstMatch(_, _)
FirstMatch(patterns, text) ==
    IF patterns = <<>> THEN None
    ELSE LET match == search(Head(patterns), text)
         IN  IF match # None THEN match ELSE FirstMatch(Tail(patterns), text)

\* the textual fields of a new InvoiceData()
NoFields ==
    [invoice_number |-> None, invoice_date |-> None, rent_period |-> None,
     description |-> None, landlord_name |-> None, landlord_tin |-> None,
     landlord_bank |-> None, landlord_account |-> None]

\* the textual fields after the extraction loops; the bank loop has no
\* break and sets one field per pattern
ExtractFields(text) ==
    [invoice_number   |-> FirstMatch(FieldPatterns("invoice_number"), text),
     invoice_date     |-> FirstMatch(FieldPatterns("invoice_date"), text),
     rent_period      |-> FirstMatch(FieldPatterns("rent_period"), text),
     description      |-> FirstMatch(FieldPatterns("description"), text),
     landlord_name    |-> FirstMatch(FieldPatterns("landlord_name"), text),
     landlord_tin     |-> FirstMatch(FieldPatterns("landlord_tin"), text),
     landlord_bank    |-> search(BANK_PATTERN, text),
     landlord_account |-> search(ACCOUNT_PATTERN, text)]

\* parse_invoice(raw_text): the InvoiceData returned, or the exception raised
parse_invoice(text) ==
    LET amts == ExtractAmounts(text)
        vat  == ExtractVat(text)
    IN  IF vat.raised
        THEN [raised |-> TRUE, amounts |-> amts, invoice |-> None, fields |-> NoFields]
        ELSE [raised |-> FALSE, amounts |-> amts,
              invoice |-> IdentifyAmounts(amts, vat.vat_rate, vat.vat_amount),
              fields |-> ExtractFields(text)]

-----------------------------------------------------------------------------
(* InvoiceParser.validate_invoice                                          *)

MsgBase == [msg |-> "Base rent amount is missing or invalid", args |-> <<>>]

MsgVat == [msg |-> "VAT amount is missing or invalid", args |-> <<>>]

MsgTotal == [msg |-> "Total amount is missing or invalid", args |-> <<>>]

\* f"Amount mismatch: Base ({b:,.2f}) + VAT ({v:,.2f}) != Total ({t:,.2f})"
MsgMismatch(b, v, t) == [msg |-> "Amount mismatch", args |-> <<b, v, t>>]

\* Decimal("0.10") of the consistency check
VALIDATE_TOLERANCE == Scale \div 10

\* errors.append(m) under the condition c
AppendIf(errs, c, m) == IF c THEN Append(errs, m) ELSE errs

\* returns (len(errors) == 0, errors)
validate_invoice(inv) ==
    LET b  == inv.base_rent_tzs
        v  == inv.vat_amount_tzs
        t  == inv.total_amount_tzs
        e1 == AppendIf(<<>>, ~Truthy(b) \/ Val(b) <= 0, MsgBase)
        e2 == AppendIf(e1, ~Truthy(v) \/ Val(v) < 0, MsgVat)
        e3 == AppendIf(e2, ~Truthy(t) \/ Val(t) <= 0, MsgTotal)
        e4 == IF Truthy(b) /\ Truthy(v) /\ Truthy(t)
              THEN AppendIf(e3,
                            Abs((Val(b) + Val(v)) - Val(t)) > VALIDATE_TOLERANCE,
                            MsgMismatch(Val(b), Val(v), Val(t)))
              ELSE e3
    IN  [ok |-> Len(e4) = 0, errors |-> e4]

-----------------------------------------------------------------------------
(* calculate_and_display_taxes                                             *)

\* Decimal("0.10") of the total-outflow metric and of the verification
DISPLAY_TOLERANCE == Scale \div 10

\* the delta of the "Total Cash Outflow" metric
outflow_delta(outflow, total) ==
    IF Abs(outflow - total) < DISPLAY_TOLERANCE THEN "Matches invoice" ELSE "Mismatch!"

verification_strict(outflow, total) ==
    IF Abs(outflow - total) >= DISPLAY_TOLERANCE
    THEN "Verification Failed" ELSE "Verification Passed"

\* the verification message: st.error or st.success
verification(outflow, total) ==
    IF Abs(outflow - total) > DISPLAY_TOLERANCE
    THEN "Verification Failed" ELSE "Verification Passed"

\* A None monetary field makes the Decimal arithmetic raise TypeError;
\* otherwise the indicators are displayed and the triple is returned.
calculate_and_display_taxes(inv) ==
    IF \/ inv.base_rent_tzs = None
       \/ inv.vat_amount_tzs = None
       \/ inv.total_amount_tzs = None
    THEN [raised |-> TRUE, returned |-> None, shown |-> <<>>]
    ELSE LET wht_amount == calculate_wht(Val(inv.base_rent_tzs))
             payment    == calculate_payment_to_landlord(
                               Val(inv.base_rent_tzs), Val(inv.vat_amount_tzs), wht_amount)
             outflow    == calculate_total_outflow(payment, wht_amount)
         IN  [raised   |-> FALSE,
              returned |-> Some(<<payment, wht_amount, outflow>>),
              shown    |-> <<outflow_delta(outflow, Val(inv.total_amount_tzs)),
                             verification(outflow, Val(inv.total_amount_tzs))>>]

-----------------------------------------------------------------------------
(* manual_input_form                                                       *)

\* Decimal(str(x)) if x > 0 else None
FormField(x) == IF x > 0 THEN Some(x) ELSE None

\* "Auto-calculate missing values": the two ifs, in order
AutoCalculate(inv) ==
    LET inv1 == IF /\ Truthy(inv.base_rent_tzs)
                   /\ Truthy(inv.vat_amount_tzs)
                   /\ ~Truthy(inv.total_amount_tzs)
                THEN [inv EXCEPT !.total_amount_tzs =
                          Some(Val(inv.base_rent_tzs) + Val(inv.vat_amount_tzs))]
                ELSE inv
    IN  IF /\ Truthy(inv1.base_rent_tzs)
           /\ Truthy(inv1.total_amount_tzs)
           /\ ~Truthy(inv1.vat_amount_tzs)
        THEN [inv1 EXCEPT !.vat_amount_tzs =
                  Some(Val(inv1.total_amount_tzs) - Val(inv1.base_rent_tzs))]
        ELSE inv1

form_return_unchecked(clicked, ok, inv) == IF clicked THEN Some(inv) ELSE None

\* what the form returns: the invoice after a click that validated, else None
form_return(clicked, ok, inv) == IF clicked /\ ok THEN Some(inv) ELSE None

\* manual_input_form() on the entered numbers, the button clicked or not
manual_input_form(entries, clicked) ==
    LET inv == AutoCalculate(InvoiceData(FormField(entries.base_rent),
                                         FormField(entries.vat_amount),
                                         FormField(entries.total_amount)))
        v   == validate_invoice(inv)
    IN  [invoice |-> inv,
         result  |-> form_return(clicked, v.ok, inv),
         ok      |-> clicked /\ v.ok,
         errors  |-> IF clicked THEN v.errors ELSE <<>>]

-----------------------------------------------------------------------------
(* main: one script run on the current widget values                       *)

UPLOAD == "Upload Invoice (Image/PDF)"

MANUAL == "Manual Entry"

\* the calls under `if invoice:` and under the extracted-path button
RunCalculate(opt_invoice) ==
    IF opt_invoice = None
    THEN [calculated_on |-> None, returned |-> None, shown |-> <<>>, raised |-> FALSE]
    ELSE LET r == calculate_and_display_taxes(Val(opt_invoice))
         IN  [calculated_on |-> opt_invoice, returned |-> r.returned,
              shown |-> r.shown, raised |-> r.raised]

Outcome(rt, text, amts, inv, ok, errs, calc) ==
    [route |-> IF calc.raised THEN "calculate_raised" ELSE rt,
     raw_text |-> text, amounts |-> amts, invoice |-> inv, is_valid |-> ok,
     errors |-> errs, calculated_on |-> calc.calculated_on,
     returned |-> calc.returned, shown |-> calc.shown, text_fields |-> NoFields]

\* the form branch: manual_input_form(), then `if invoice:` the calculation
FormBranch(rt, text, amts, shown_errors, entries, clicked) ==
    LET f == manual_input_form(entries, clicked)
    IN  Outcome(rt, text, amts, f.invoice, f.ok, shown_errors \o f.errors,
                RunCalculate(f.result))

main(method, file, entries, clicked) ==
    IF method = UPLOAD
    THEN IF file = None
         THEN Outcome("no_file", <<>>, <<>>, None, FALSE, <<>>, RunCalculate(None))
         ELSE IF Val(file) = <<>>
         THEN Outcome("no_text", <<>>, <<>>, None, FALSE, <<>>, RunCalculate(None))
         ELSE LET p == parse_invoice(Val(file))
              IN  IF p.raised
                  THEN Outcome("parse_raised", Val(file), p.amounts, None, FALSE, <<>>,
                               RunCalculate(None))
                  ELSE LET v == validate_invoice(p.invoice)
                       IN  IF ~v.ok
                           THEN FormBranch("manual_correction", Val(file), p.amounts,
                                           v.errors, entries, clicked)
                           ELSE [Outcome("extracted", Val(file), p.amounts, p.invoice,
                                         TRUE, <<>>,
                                         RunCalculate(IF clicked THEN Some(p.invoice)
                                                      ELSE None))
                                   EXCEPT !.text_fields = p.fields]
    ELSE FormBranch("manual_entry", <<>>, <<>>, <<>>, entries, clicked)

-----------------------------------------------------------------------------
(* The TaxCalculator chain on enumerated arguments, as                      *)
(* calculate_and_display_taxes calls it.                                    *)

MaxBaseMills == 120

MaxVatMills == 25

\* the record variables while no record operation runs
RecIdle ==
    /\ rpc = "idle"
    /\ invoice = None
    /\ is_valid = FALSE
    /\ errors = <<>>
    /\ returned = None
    /\ shown = <<>>

\* the parser variables while no text is parsed
ParseIdle ==
    /\ raw_text = None
    /\ amounts = <<>>
    /\ text_fields = NoFields

\* value=0.0 of the three number inputs
FormDefault == [base_rent |-> 0, vat_amount |-> 0, total_amount |-> 0]

\* the variables of main while main does not run
MainIdle ==
    /\ input_method = "none"
    /\ uploaded_file = None
    /\ form = FormDefault
    /\ button = FALSE
    /\ route = "none"
    /\ calculated_on = None

TaxInit ==
    /\ RecIdle
    /\ ParseIdle
    /\ MainIdle
    /\ tpc = "calculate_wht"
    /\ gross_rent \in {k * Mill : k \in 0..MaxBaseMills}
    /\ vat_amount \in {k * Mill : k \in 0..MaxVatMills}
    /\ wht = None
    /\ payment_to_landlord = None
    /\ total_outflow = None
    /\ vat_check = None

CalcWht ==
    /\ tpc = "calculate_wht"
    /\ wht' = Some(calculate_wht(gross_rent))
    /\ tpc' = "calculate_payment_to_landlord"
    /\ UNCHANGED <<gross_rent, vat_amount, payment_to_landlord, total_outflow, vat_check, recVars, parseVars, mainVars>>

CalcPayment ==
    /\ tpc = "calculate_payment_to_landlord"
    /\ payment_to_landlord' =
           Some(calculate_payment_to_landlord(gross_rent, vat_amount, Val(wht)))
    /\ tpc' = "calculate_total_outflow"
    /\ UNCHANGED <<gross_rent, vat_amount, wht, total_outflow, vat_check, recVars, parseVars, mainVars>>

CalcOutflow ==
    /\ tpc = "calculate_total_outflow"
    /\ total_outflow' = Some(calculate_total_outflow(Val(payment_to_landlord), Val(wht)))
    /\ tpc' = "done"
    /\ UNCHANGED <<gross_rent, vat_amount, wht, payment_to_landlord, vat_check, recVars, parseVars, mainVars>>

TaxNext == CalcWht \/ CalcPayment \/ CalcOutflow

SpecTax == TaxInit /\ [][TaxNext]_vars

-----------------------------------------------------------------------------
(* TaxCalculator.verify_vat_rate on enumerated arguments: whole cents, the  *)
(* base amount 0 included.                                                  *)

MaxRateBaseCents == 280

MaxRateVatCents == 54

RateInit ==
    /\ RecIdle
    /\ ParseIdle
    /\ MainIdle
    /\ tpc = "verify_vat_rate"
    /\ gross_rent \in {k * Cent : k \in 0..MaxRateBaseCents}
    /\ vat_amount \in {k * Cent : k \in 0..MaxRateVatCents}
    /\ wht = None
    /\ payment_to_landlord = None
    /\ total_outflow = None
    /\ vat_check = None

\* effective_rate, is_standard = TaxCalculator.verify_vat_rate(vat, base)
VerifyVatRate ==
    /\ tpc = "verify_vat_rate"
    /\ \E out \in {verify_vat_rate(vat_amount, gross_rent)} :
           /\ vat_check' = out.result
           /\ tpc' = IF out.raised THEN "verify_raised" ELSE "verified"
    /\ UNCHANGED <<gross_rent, vat_amount, wht, payment_to_landlord, total_outflow,
                   recVars, parseVars, mainVars>>

SpecRate == RateInit /\ [][VerifyVatRate]_vars

-----------------------------------------------------------------------------
(* validate_invoice and calculate_and_display_taxes applied to enumerated   *)
(* records: every combination of unset, negative, zero and positive fields. *)

MaxRecK == 4

\* the tax chain variables while the chain does not run
TaxIdle ==
    /\ tpc = "idle"
    /\ gross_rent = 0
    /\ vat_amount = 0
    /\ wht = None
    /\ payment_to_landlord = None
    /\ total_outflow = None
    /\ vat_check = None

\* amounts -0.05, 0.00, 0.05, ... in steps of five cents
RecAmounts == {k * 5 * Cent : k \in -1..MaxRecK}

RecFields == {None} \cup {Some(a) : a \in RecAmounts}

RecInit ==
    /\ TaxIdle
    /\ ParseIdle
    /\ MainIdle
    /\ rpc = "start"
    /\ invoice \in {InvoiceData(b, v, t) : b \in RecFields, v \in RecFields, t \in RecFields}
    /\ is_valid = FALSE
    /\ errors = <<>>
    /\ returned = None
    /\ shown = <<>>

\* is_valid, errors = InvoiceParser.validate_invoice(invoice)
Validate ==
    /\ rpc = "start"
    /\ is_valid' = validate_invoice(invoice).ok
    /\ errors' = validate_invoice(invoice).errors
    /\ rpc' = "validated"
    /\ UNCHANGED <<invoice, returned, shown, taxVars, parseVars, mainVars>>

\* calculate_and_display_taxes(invoice), whatever validation said
Calculate ==
    /\ rpc = "validated"
    /\ LET r == calculate_and_display_taxes(invoice)
       IN  /\ returned' = r.returned
           /\ shown' = r.shown
           /\ rpc' = IF r.raised THEN "raised" ELSE "calculated"
    /\ UNCHANGED <<invoice, is_valid, errors, taxVars, parseVars, mainVars>>

RecNext == Validate \/ Calculate

SpecRecord == RecInit /\ [][RecNext]_vars

-----------------------------------------------------------------------------
(* parse_invoice on enumerated texts, then validate_invoice and, for a      *)
(* record that passed, calculate_and_display_taxes.                         *)

MaxTokens == 3

Tokens == {Token(k, g) : k \in TokenKinds, g \in DigitGroups}

\* the sequences of at most n elements of S
SeqsUpTo(S, n) == UNION {[1..k -> S] : k \in 0..n}

ParseInit ==
    /\ TaxIdle
    /\ MainIdle
    /\ rpc = "text"
    /\ raw_text \in SeqsUpTo(Tokens, MaxTokens)
    /\ amounts = <<>>
    /\ text_fields = NoFields
    /\ invoice = None
    /\ is_valid = FALSE
    /\ errors = <<>>
    /\ returned = None
    /\ shown = <<>>

\* invoice = InvoiceParser.parse_invoice(raw_text)
Parse ==
    /\ rpc = "text"
    /\ LET r == parse_invoice(raw_text)
       IN  /\ amounts' = r.amounts
           /\ text_fields' = r.fields
           /\ invoice' = r.invoice
           /\ rpc' = IF r.raised THEN "parse_raised" ELSE "start"
    /\ UNCHANGED <<raw_text, is_valid, errors, returned, shown, taxVars, mainVars>>

\* calculate_and_display_taxes(invoice) behind the validation gate
CalculateValid == is_valid /\ Calculate

ParseNext == Parse \/ Validate \/ CalculateValid

SpecParse == ParseInit /\ [][ParseNext]_vars

-----------------------------------------------------------------------------
(* parse_invoice on enumerated texts of lines that carry textual fields,    *)
(* then validate_invoice on the record.                                     *)

MaxFieldTokens == 2

FieldTokens == {Token(k, v) : k \in FieldKinds, v \in FieldValues}

FieldsInit ==
    /\ TaxIdle
    /\ MainIdle
    /\ rpc = "text"
    /\ raw_text \in SeqsUpTo(FieldTokens, MaxFieldTokens)
    /\ amounts = <<>>
    /\ text_fields = NoFields
    /\ invoice = None
    /\ is_valid = FALSE
    /\ errors = <<>>
    /\ returned = None
    /\ shown = <<>>

FieldsNext == Parse \/ Validate

SpecFields == FieldsInit /\ [][FieldsNext]_vars

-----------------------------------------------------------------------------
(* The two ways a record is assembled: parse_invoice on a text, or          *)
(* manual_input_form on three entered numbers, the button clicked or not;   *)
(* then calculate_and_display_taxes on a record that passed validation.     *)

MaxEntryK == 4

\* the numbers typed into the form: 0.00, 0.05, ... in steps of five cents
EntryAmounts == {k * 5 * Cent : k \in 0..MaxEntryK}

FormInit ==
    /\ TaxIdle
    /\ ParseIdle
    /\ input_method = MANUAL
    /\ uploaded_file = None
    /\ form \in [base_rent : EntryAmounts, vat_amount : EntryAmounts,
                 total_amount : EntryAmounts]
    /\ button \in BOOLEAN
    /\ route = "none"
    /\ calculated_on = None
    /\ rpc = "form"
    /\ invoice = None
    /\ is_valid = FALSE
    /\ errors = <<>>
    /\ returned = None
    /\ shown = <<>>

\* invoice = manual_input_form(): the fields, the auto-calculation and, after
\* a click, validate_invoice
ManualForm ==
    /\ rpc = "form"
    /\ \E out \in {manual_input_form(form, button)} :
           /\ invoice' = out.invoice
           /\ is_valid' = out.ok
           /\ errors' = out.errors
           /\ rpc' = IF button THEN "validated" ELSE "form_shown"
    /\ UNCHANGED <<returned, shown, taxVars, parseVars, mainVars>>

AssembleInit == ParseInit \/ FormInit

AssembleNext == Parse \/ Validate \/ ManualForm \/ CalculateValid

SpecAssemble == AssembleInit /\ [][AssembleNext]_vars

-----------------------------------------------------------------------------
(* The application: every user interaction reruns main on the widget        *)
(* values.  A widget that a run does not render loses its value: the form   *)
(* numbers go back to 0.0 and the uploader to no file.                      *)

MaxMainTokens == 2

MaxFormK == 2

\* the texts the uploaded files hold: lines with a TZS-tagged amount, some
\* of them VAT clauses
MainTokens ==
    { Token("pre", <<"1">>), Token("pre", <<"1", ",", "0">>),
      Token("vatpctpre", <<"1">>), Token("vatpctpre", <<",">>) }

MainTexts == SeqsUpTo(MainTokens, MaxMainTokens)

\* the numbers typed into the form: whole currency units
FormAmounts == {k * Scale : k \in 0..MaxFormK}

FormRendered(rt) == rt \in {"manual_correction", "manual_entry"}

ButtonRendered(rt) == rt \in {"manual_correction", "manual_entry", "extracted"}

\* one run of main and what it leaves behind
MainRun(method, file, entries, clicked) ==
    \E out \in {main(method, IF method = UPLOAD THEN file ELSE None, entries, clicked)} :
        /\ input_method' = method
        /\ uploaded_file' = IF method = UPLOAD THEN file ELSE None
        /\ form' = IF FormRendered(out.route) THEN entries ELSE FormDefault
        /\ button' = clicked
        /\ route' = out.route
        /\ calculated_on' = out.calculated_on
        /\ raw_text' = out.raw_text
        /\ amounts' = out.amounts
        /\ text_fields' = out.text_fields
        /\ invoice' = out.invoice
        /\ is_valid' = out.is_valid
        /\ errors' = out.errors
        /\ returned' = out.returned
        /\ shown' = out.shown
        /\ rpc' = "main"
        /\ UNCHANGED taxVars

\* the first run: the radio on its first option, nothing uploaded or typed
Init ==
    /\ TaxIdle
    /\ input_method = UPLOAD
    /\ uploaded_file = None
    /\ form = FormDefault
    /\ button = FALSE
    /\ route = "no_file"
    /\ calculated_on = None
    /\ raw_text = <<>>
    /\ amounts = <<>>
    /\ text_fields = NoFields
    /\ invoice = None
    /\ is_valid = FALSE
    /\ errors = <<>>
    /\ returned = None
    /\ shown = <<>>
    /\ rpc = "main"

SelectMethod ==
    \E m \in {UPLOAD, MANUAL} :
        /\ m # input_method
        /\ MainRun(m, uploaded_file, form, FALSE)

UploadFile ==
    /\ input_method = UPLOAD
    /\ \E t \in MainTexts : MainRun(UPLOAD, Some(t), form, FALSE)

RemoveFile ==
    /\ input_method = UPLOAD
    /\ uploaded_file # None
    /\ MainRun(UPLOAD, None, form, FALSE)

\* the user changes one number input, which reruns main
EnterAmount ==
    /\ FormRendered(route)
    /\ \E field \in {"base_rent", "vat_amount", "total_amount"}, x \in FormAmounts :
           /\ x # form[field]
           /\ MainRun(input_method, uploaded_file, [form EXCEPT ![field] = x], FALSE)

ClickCalculate ==
    /\ ButtonRendered(route)
    /\ MainRun(input_method, uploaded_file, form, TRUE)

Next == SelectMethod \/ UploadFile \/ RemoveFile \/ EnterAmount \/ ClickCalculate

Spec == Init /\ [][Next]_vars

-----------------------------------------------------------------------------
(* x is d rounded half-up to a whole number of cents, for d >= 0: stated    *)
(* by the distance to d and not by the way quantize computes it.            *)
IsHalfUpCents(x, d) ==
    /\ x % Cent = 0
    /\ 2 * (x - d) <= Cent
    /\ 2 * (d - x) < Cent

\* C1: for non-negative base_rent and vat_amount (also with more than two
\* fractional digits) the chained calls give
\* total_outflow = round_half_up(base_rent + vat_amount, 2).
C1_ZeroSum ==
    tpc = "done" => IsHalfUpCents(Val(total_outflow), gross_rent + vat_amount)

\* the chain has run on a base with a sub-cent part whose withholding is not
\* zero and a VAT that moves the sum over a rounding tie
C1_Witness ==
    /\ tpc = "done"
    /\ gross_rent % Cent # 0
    /\ vat_amount % Cent # 0
    /\ Val(wht) > 0
    /\ 2 * ((gross_rent + vat_amount) % Cent) = Cent

\* C2: calculate_wht(base_rent) is base_rent * 0.10 rounded half-up to two
\* decimals (a tie goes up, never to the even cent), whatever the VAT is.
C2_WhtHalfUp ==
    wht # None => IsHalfUpCents(Val(wht), DecMul(gross_rent, WHT_RATE))

\* a withholding tie that banker's rounding would send down (0.005 -> 0.01),
\* with a VAT present
C2_Witness ==
    /\ wht # None
    /\ 2 * (DecMul(gross_rent, WHT_RATE) % Cent) = Cent
    /\ (DecMul(gross_rent, WHT_RATE) \div Cent) % 2 = 0
    /\ vat_amount > 0

-----------------------------------------------------------------------------
(* Claims about validate_invoice and calculate_and_display_taxes, under     *)
(* SpecRecord.                                                              *)

\* validate_invoice has been applied to invoice
HasValidated == rpc \in {"validated", "calculated", "raised"}

AllPresent(inv) ==
    /\ inv.base_rent_tzs # None
    /\ inv.vat_amount_tzs # None
    /\ inv.total_amount_tzs # None

\* base_rent + vat_amount - total_amount of a record with the three present
Delta(inv) ==
    (Val(inv.base_rent_tzs) + Val(inv.vat_amount_tzs)) - Val(inv.total_amount_tzs)

HasMismatchMsg(errs) == \E i \in 1..Len(errs) : errs[i].msg = "Amount mismatch"

\* C3: a record with base_rent > 0, vat_amount present and equal to 0,
\* total_amount > 0 and |base + vat - total| <= 0.10 validates: ok is True
\* and the error list is empty.
C3_ZeroVatAccepted ==
    ( /\ HasValidated
      /\ AllPresent(invoice)
      /\ Val(invoice.base_rent_tzs) > 0
      /\ Val(invoice.vat_amount_tzs) = 0
      /\ Val(invoice.total_amount_tzs) > 0
      /\ Abs(Delta(invoice)) <= VALIDATE_TOLERANCE )
    => (is_valid /\ errors = <<>>)

\* C5: when the three monetary fields are present (a VAT of 0 included) the
\* mismatch message is in the error list exactly when
\* |base_rent + vat_amount - total_amount| > 0.10.
C5_MismatchIff ==
    (HasValidated /\ AllPresent(invoice))
    => (HasMismatchMsg(errors) <=> Abs(Delta(invoice)) > VALIDATE_TOLERANCE)

\* The four checks as section 4.4 of the specification states them, each
\* with its message, in the fixed order.
SpecChecks(inv) ==
    LET b == inv.base_rent_tzs
        v == inv.vat_amount_tzs
        t == inv.total_amount_tzs
    IN  << <<b = None \/ Val(b) <= 0, MsgBase>>,
           <<v = None \/ Val(v) < 0, MsgVat>>,
           <<t = None \/ Val(t) <= 0, MsgTotal>>,
           <<AllPresent(inv) /\ Abs(Delta(inv)) > VALIDATE_TOLERANCE,
             IF AllPresent(inv) THEN MsgMismatch(Val(b), Val(v), Val(t)) ELSE MsgBase>> >>

RECURSIVE MessagesOf(_)
MessagesOf(checks) ==
    IF checks = <<>> THEN <<>>
    ELSE (IF Head(checks)[1] THEN <<Head(checks)[2]>> ELSE <<>>) \o MessagesOf(Tail(checks))

\* C6: all four checks are evaluated; every failing check contributes its
\* one message, in the order base rent, VAT, total, mismatch, and ok is True
\* exactly when the list is empty.
C6_AllChecksAccumulate ==
    HasValidated =>
        /\ errors = MessagesOf(SpecChecks(invoice))
        /\ is_valid = (errors = <<>>)

\* C8: the verification passes exactly when |total_outflow - total_amount| is
\* within the validator's tolerance of 0.10; a mismatch is a displayed message,
\* the call raises for no record with its three fields present, and the
\* triple is returned in the pass and in the mismatch case alike.
C8_ReconcileWarnsAndReturns ==
    /\ rpc = "raised" => ~AllPresent(invoice)
    /\ rpc = "calculated" =>
          /\ returned # None
          /\ Len(Val(returned)) = 3
          /\ Val(returned)[1] + Val(returned)[2] = Val(returned)[3]
          /\ shown[2] \in {"Verification Passed", "Verification Failed"}
          /\ shown[2] = "Verification Passed"
               <=> Abs(Val(returned)[3] - Val(invoice.total_amount_tzs))
                       <= VALIDATE_TOLERANCE

\* the forced run of the mismatch scenario: a positive base, VAT 0 and a
\* stated total more than 0.10 above the base are rejected by the validator,
\* and the calculation still returns total_outflow = base with the
\* verification failed
C8_Witness ==
    /\ rpc = "calculated"
    /\ ~is_valid
    /\ Val(invoice.base_rent_tzs) > 0
    /\ Val(invoice.vat_amount_tzs) = 0
    /\ Val(invoice.total_amount_tzs) - Val(invoice.base_rent_tzs) > VALIDATE_TOLERANCE
    /\ Val(returned)[3] = Val(invoice.base_rent_tzs)
    /\ shown[2] = "Verification Failed"

-----------------------------------------------------------------------------
(* Claims about parse_invoice, under SpecParse.                             *)

\* parse_invoice has returned the record held in invoice
HasParsed == rpc \in {"start", "validated", "calculated"}

NonNegative(field) == field = None \/ Val(field) >= 0

\* C7: parse_invoice returns a record for every text and never raises: a
\* currency or VAT-clause token whose comma-stripped digits do not parse as a
\* decimal is skipped.
C7_ParseNeverRaises == rpc # "parse_raised"

\* C9: after the automatic parse, whenever total_amount and vat_amount are
\* both set (a VAT amount of 0 included), base_rent = total_amount - vat_amount.
C9_BaseDerived ==
    ( /\ HasParsed
      /\ invoice.total_amount_tzs # None
      /\ invoice.vat_amount_tzs # None )
    => invoice.base_rent_tzs
           = Some(Val(invoice.total_amount_tzs) - Val(invoice.vat_amount_tzs))

\* C10: every monetary field of a parsed record that is present is
\* non-negative; a derived base_rent = total_amount - vat_amount is never
\* negative.
C10_MonetaryNonNegative ==
    HasParsed =>
        /\ NonNegative(invoice.base_rent_tzs)
        /\ NonNegative(invoice.vat_amount_tzs)
        /\ NonNegative(invoice.total_amount_tzs)

-----------------------------------------------------------------------------
(* Claims about main, under Spec.                                           *)

\* the upload path holds a text whose parsed record fails validation
ParsedRecordFails ==
    /\ input_method = UPLOAD
    /\ uploaded_file # None
    /\ Val(uploaded_file) # <<>>
    /\ ~parse_invoice(Val(uploaded_file)).raised
    /\ ~validate_invoice(parse_invoice(Val(uploaded_file)).invoice).ok

\* C4: in every run of main, on either path and after any sequence of reruns,
\* calculate_and_display_taxes is invoked only on a record that
\* validate_invoice accepts; a parsed record that fails validation sends the
\* run to the manual correction form, and only the form's validated record is
\* calculated on.
C4_CalculateOnlyOnValid ==
    rpc = "main" =>
        /\ route # "calculate_raised"
        /\ calculated_on # None => validate_invoice(Val(calculated_on)).ok
        /\ ParsedRecordFails =>
              /\ route = "manual_correction"
              /\ calculated_on # None => calculated_on = Some(invoice)

\* a run of the upload path whose parsed record failed validation, and in
\* which the corrected record of the form was calculated on after the click
C4_Witness ==
    /\ rpc = "main"
    /\ ParsedRecordFails
    /\ route = "manual_correction"
    /\ button
    /\ calculated_on # None
    /\ returned # None

-----------------------------------------------------------------------------
(* Claims about the amounts list and the positional inference, under        *)
(* SpecParse.                                                               *)

\* parse_invoice has run on raw_text, whether it returned or raised
ParseRan == rpc # "text"

\* the currency-tagged tokens of the text, whichever side the marker is on,
\* in the order the text has them, the unparseable ones left out
TextOrderAmounts(text) ==
    AppendAmounts(<<>>, finditer(AMOUNT_PATTERN_1 \cup AMOUNT_PATTERN_2, text))

\* C11: the amounts list holds the currency-tagged amounts of the text in the
\* order they appear in the text, across both token orders, one entry per
\* occurrence, repeated figures kept.
C11_AmountsInTextOrder == ParseRan => amounts = TextOrderAmounts(raw_text)

\* no VAT clause of either shape is in the text
NoVatClause(text) == finditer(VAT_PATTERN_1 \cup VAT_PATTERN_2, text) = <<>>

\* C12: with at least two amounts collected, total_amount is the last one;
\* with fewer than two it stays unset.  When no VAT clause set vat_amount, it
\* is the second-to-last amount if there are at least three, and stays unset
\* if there are exactly two.
C12_PositionalInference ==
    HasParsed =>
        LET n == Len(amounts)
        IN  /\ n >= 2 => invoice.total_amount_tzs = Some(amounts[n])
            /\ n < 2 => invoice.total_amount_tzs = None
            /\ (NoVatClause(raw_text) /\ n >= 3)
                   => invoice.vat_amount_tzs = Some(amounts[n - 1])
            /\ (NoVatClause(raw_text) /\ n = 2)
                   => invoice.vat_amount_tzs = None

\* three different amounts and no VAT clause: the last became the total and
\* the middle one the VAT amount
C12_Witness ==
    /\ HasParsed
    /\ NoVatClause(raw_text)
    /\ Len(amounts) = 3
    /\ amounts[1] # amounts[2]
    /\ amounts[2] # amounts[3]
    /\ invoice.total_amount_tzs = Some(amounts[3])
    /\ invoice.vat_amount_tzs = Some(amounts[2])

-----------------------------------------------------------------------------
(* Claims about the assembly of a record, under SpecAssemble.               *)

\* manual_input_form has run on the numbers in form
FormRan == input_method = MANUAL /\ rpc \in {"form_shown", "validated", "calculated"}

\* parse_invoice has returned the record held in invoice
TextParsed == input_method # MANUAL /\ HasParsed

MonetaryFields == {"base_rent_tzs", "vat_amount_tzs", "total_amount_tzs"}

\* what the three number inputs put into the record before the
\* auto-calculation
Entered ==
    [base_rent_tzs    |-> FormField(form.base_rent),
     vat_amount_tzs   |-> FormField(form.vat_amount),
     total_amount_tzs |-> FormField(form.total_amount)]

\* the VAT amount the VAT clause of the text set, or None
ClauseVat == ExtractVat(raw_text).vat_amount

IsAmount(field) == \E i \in 1..Len(amounts) : field = Some(amounts[i])

\* C13: one assembly pass computes at most one of base_rent, vat_amount and
\* total_amount from the other two, and never replaces a value that
\* extraction or entry set: a VAT amount from a VAT clause, 0 included, is
\* kept whatever the amounts list holds, and an entered number is kept by the
\* form's auto-calculation.
C13_SetValuesKept ==
    /\ TextParsed =>
          /\ ClauseVat # None => invoice.vat_amount_tzs = ClauseVat
          /\ invoice.total_amount_tzs = None \/ IsAmount(invoice.total_amount_tzs)
          /\ \/ invoice.vat_amount_tzs = ClauseVat
             \/ IsAmount(invoice.vat_amount_tzs)
    /\ FormRan =>
          /\ \A f \in MonetaryFields : Entered[f] # None => invoice[f] = Entered[f]
          /\ Cardinality({f \in MonetaryFields : invoice[f] # Entered[f]}) <= 1

\* a VAT clause said 0, three amounts were collected, the second-to-last is
\* not 0, and vat_amount is still the clause's 0
C13_Witness ==
    /\ TextParsed
    /\ ClauseVat = Some(0)
    /\ Len(amounts) >= 3
    /\ amounts[Len(amounts) - 1] # 0
    /\ invoice.vat_amount_tzs = Some(0)

-----------------------------------------------------------------------------
(* Claims about verify_vat_rate, under SpecRate.                            *)

\* verify_vat_rate has returned the pair held in vat_check
HasVerified == tpc = "verified"

\* C14: for a base amount other than 0, effective_rate is vat / base rounded
\* half-up to four decimal places, and is_standard holds exactly when the
\* rounded rate is less than 0.01 away from 0.18, so that 0.1700 and 0.1900
\* are not standard; (0.09, 0.50) gives (0.1800, True) and (0.10, 0.50) gives
\* (0.2000, False).
C14_EffectiveRate ==
    (HasVerified /\ gross_rent # 0) =>
        LET rate == Val(vat_check)[1]
            std  == Val(vat_check)[2]
        IN  /\ rate % TenThousandth = 0
            /\ 2 * (rate * gross_rent - vat_amount * Scale) <= gross_rent * TenThousandth
            /\ 2 * (vat_amount * Scale - rate * gross_rent) < gross_rent * TenThousandth
            /\ std <=> (17 * Cent < rate /\ rate < 19 * Cent)
            /\ (vat_amount = 9 * Cent /\ gross_rent = 50 * Cent)
                   => vat_check = Some(<<18 * Cent, TRUE>>)
            /\ (vat_amount = 10 * Cent /\ gross_rent = 50 * Cent)
                   => vat_check = Some(<<20 * Cent, FALSE>>)

\* a quotient strictly between 0.17 and 0.18 that rounds to 0.1700, and is
\* therefore not standard
C14_Witness ==
    /\ HasVerified
    /\ gross_rent # 0
    /\ 100 * vat_amount > 17 * gross_rent
    /\ vat_check = Some(<<17 * Cent, FALSE>>)

\* C19: verify_vat_rate(vat, 0) returns (0, False) for every vat, and does
\* not divide.
C19_ZeroBase == (tpc # "verify_vat_rate" /\ gross_rent = 0) => (HasVerified /\ vat_check = Some(<<0, FALSE>>))

\* a base amount of 0 with a VAT amount that is not 0
C19_Witness ==
    /\ HasVerified
    /\ gross_rent = 0
    /\ vat_amount > 0
    /\ vat_check = Some(<<0, FALSE>>)

-----------------------------------------------------------------------------
(* Claims about manual_input_form, under SpecAssemble.                      *)

FormInputs == {"base_rent", "vat_amount", "total_amount"}

\* exactly one of the three numbers was left at 0 and the other two are
\* positive
OneMissing == Cardinality({f \in FormInputs : form[f] = 0}) = 1

\* C15: when exactly one of the three numbers is entered as 0 and the other
\* two are positive, the auto-calculation fills the missing field, so that
\* all three are set and base_rent + vat_amount = total_amount.
C15_AutoCalcFillsMissing ==
    (FormRan /\ OneMissing) =>
        /\ \A f \in MonetaryFields : invoice[f] # None
        /\ Val(invoice.base_rent_tzs) + Val(invoice.vat_amount_tzs)
               = Val(invoice.total_amount_tzs)

-----------------------------------------------------------------------------
(* Claims about the textual fields, under SpecFields.                       *)

\* some line of the text matches the pattern
Matches(pattern, text) == \E i \in 1..Len(text) : text[i].kind \in pattern

\* value is what the pattern reads on the first line of the text it matches
IsFirstIn(value, pattern, text) ==
    \E i \in 1..Len(text) :
        /\ text[i].kind \in pattern
        /\ \A j \in 1..(i - 1) : text[j].kind \notin pattern
        /\ value = Some(MatchGroup(pattern, text[i]))

\* C16: each of invoice number, date, rent period, description, landlord
\* name and TIN takes the value of the first pattern of its list that
\* matches, whatever later patterns match and whatever the other fields do,
\* and stays unset when none matches.  Bank name and account number are each
\* set exactly when their own pattern matches.
C16_FirstMatchWins ==
    TextParsed =>
        /\ \A f \in TextFields :
               LET first  == FieldPatterns(f)[1]
                   second == FieldPatterns(f)[2]
               IN  /\ Matches(first, raw_text)
                          => IsFirstIn(text_fields[f], first, raw_text)
                   /\ (~Matches(first, raw_text) /\ Matches(second, raw_text))
                          => IsFirstIn(text_fields[f], second, raw_text)
                   /\ (~Matches(first, raw_text) /\ ~Matches(second, raw_text))
                          => text_fields[f] = None
        /\ IF Matches(BANK_PATTERN, raw_text)
           THEN IsFirstIn(text_fields.landlord_bank, BANK_PATTERN, raw_text)
           ELSE text_fields.landlord_bank = None
        /\ IF Matches(ACCOUNT_PATTERN, raw_text)
           THEN IsFirstIn(text_fields.landlord_account, ACCOUNT_PATTERN, raw_text)
           ELSE text_fields.landlord_account = None

\* an "INV:" line ahead of an "Invoice No:" line with another value: the
\* invoice number is the one the first pattern reads on the second line
C16_Witness ==
    /\ TextParsed
    /\ Len(raw_text) = 2
    /\ raw_text[1].kind = "inv"
    /\ raw_text[2].kind = "invno"
    /\ raw_text[1].group # raw_text[2].group
    /\ text_fields.invoice_number = Some(raw_text[2].group)

-----------------------------------------------------------------------------
(* Claims about the parsed record through validation and calculation,       *)
(* under SpecParse.                                                         *)

\* C17: in a record parse_invoice returned, base_rent is set only together
\* with total_amount and vat_amount, and then base_rent + vat_amount =
\* total_amount exactly; validate_invoice reports no amount mismatch for it;
\* and when it passes validation the total_outflow computed from it equals
\* its total_amount.
C17_ParsedRecordReconciles ==
    HasParsed =>
        /\ invoice.base_rent_tzs # None => (AllPresent(invoice) /\ Delta(invoice) = 0)
        /\ rpc \in {"validated", "calculated"} => ~HasMismatchMsg(errors)
        /\ rpc = "calculated" => Val(returned)[3] = Val(invoice.total_amount_tzs)

\* a parsed record that passed validation and whose withholding tax was
\* rounded to the cent, with total_outflow equal to its total_amount
C17_Witness ==
    /\ rpc = "calculated"
    /\ raw_text # <<>>
    /\ is_valid
    /\ Val(returned)[2] # DecMul(Val(invoice.base_rent_tzs), WHT_RATE)
    /\ Val(returned)[3] = Val(invoice.total_amount_tzs)

-----------------------------------------------------------------------------
(* Claims about the indicators of calculate_and_display_taxes, under        *)
(* SpecAssemble.                                                            *)

\* C18: the two reconciliation indicators agree on every record that reaches
\* calculate_and_display_taxes: the Total Cash Outflow metric says "Matches
\* invoice" exactly when the verification says "Verification Passed", and
\* "Mismatch!" exactly when it says "Verification Failed", a difference of
\* exactly 0.10 included.
C18_IndicatorsAgree ==
    rpc = "calculated" =>
        /\ shown[1] = "Matches invoice" <=> shown[2] = "Verification Passed"
        /\ shown[1] = "Mismatch!" <=> shown[2] = "Verification Failed"

====
